---- MODULE Spec2Model ----
(***************************************************************************)
(* Leave-request approval workflow and risk engine of the QKREW backend.   *)
(*                                                                         *)
(* The leave table is the shared state.  Every HTTP call is served by a    *)
(* worker: the call is accepted (Issue), then the handler body runs.  A    *)
(* handler that performs one database statement is one step; delete_leave  *)
(* and update_leave read the row, check it and write it in a later         *)
(* statement, so they take two steps and other calls may commit in         *)
(* between.  The caller and the request body are inputs of the step that   *)
(* first uses them (the users table is never written here).                *)
(***************************************************************************)
EXTENDS Integers, Sequences, FiniteSets, Bags, TLC

VARIABLES ncalls, leaves, busy, old, pend, last, tasks, incidents, risk,
          pool, workload, analysis, skill, blocking_flag

vars == <<ncalls, leaves, busy, old, pend, last, tasks, incidents, risk,
          pool, workload, analysis, skill, blocking_flag>>

\* ------------------------------------------------------------------ bounds
\* Rows the leave table may hold, concurrent calls, calls served in one run.
MaxLeaves == 1
NumWorkers == 2
MaxCalls == 3
\* Longest leave, and rows of the task and incident tables, in a risk run.
MaxDays == 5
MaxTasks == 1
MaxIncidents == 1
\* Rows of the task table in a workload run.
MaxWorkTasks == 3
\* Rows of the task and incident tables and users besides the requester,
\* together, in a conflict run.
MaxRows == 3
\* Calls of a client that sends one call after the other.
MaxFlowCalls == 4
\* Largest importance weight of a required skill.
MaxWeight == 2
\* Rows of the task and incident tables together when both advisory
\* computations run over the same tables.
MaxAdvisoryRows == 2
\* Incidents filed in a run of the incident endpoints.
MaxFiled == 2

\* --------------------------------------------------------------- constants
None == "None"
Now == "ts"

ADMIN == "admin"
PROJECT_MANAGER == "project_manager"
TECHNICAL_LEAD == "technical_lead"
HR == "hr"
EMPLOYEE == "employee"

PENDING_HR_REVIEW == "pending_hr_review"
FORWARDED_TO_TEAM_LEAD == "forwarded_to_team_lead"
PENDING_L7_DECISION == "pending_l7_decision"
APPROVED == "approved"
REJECTED == "rejected"
CANCELLED == "cancelled"

Statuses ==
  {PENDING_HR_REVIEW, FORWARDED_TO_TEAM_LEAD, PENDING_L7_DECISION,
   APPROVED, REJECTED, CANCELLED}

\* Error kinds of the responses (HTTP status of the raised HTTPException).
OK == "OK"
Forbidden == "Forbidden"
NotFound == "NotFound"
InvalidState == "InvalidState"
InvalidArgument == "InvalidArgument"
Internal == "Internal"

\* ------------------------------------------------------------------- users
UserIds == {"u_admin", "u_hr", "u_tl", "u_pm", "u_emp"}

\* The user row returned by get_current_user, one user per role.
Users ==
  [u \in UserIds |->
     CASE u = "u_admin" -> [id |-> u, role |-> ADMIN, hierarchy_level |-> "L1"]
       [] u = "u_hr"    -> [id |-> u, role |-> HR, hierarchy_level |-> "L4"]
       [] u = "u_tl"    -> [id |-> u, role |-> TECHNICAL_LEAD, hierarchy_level |-> "L7"]
       [] u = "u_pm"    -> [id |-> u, role |-> PROJECT_MANAGER, hierarchy_level |-> "L3"]
       [] u = "u_emp"   -> [id |-> u, role |-> EMPLOYEE, hierarchy_level |-> "L9"]]

\* Users who file leave requests in the model.
Requesters == {"u_emp"}

\* users.has_blocking_incident of every user, before any incident is filed.
NoFlags == [u \in UserIds |-> FALSE]

is_admin(user) ==
  user.role = ADMIN \/ user.hierarchy_level \in {"L1", "L2"}

\* ------------------------------------------------------------ leave table
LeaveIds == 1..MaxLeaves
\* Ids a caller may name: every row id plus one id that is never inserted.
CallIds == 1..(MaxLeaves + 1)
LeaveDays == {2}
NotesIn == {"note"}
TlActions == {"approve", "forward_to_pm", "escalate"}
PmActions == {"approve", "reject", "escalate"}

new_leave(employee_id, days) ==
  [employee_id |-> employee_id, days |-> days, status |-> PENDING_HR_REVIEW,
   hr_reviewed_by |-> None, hr_reviewed_at |-> None, decided_by_id |-> None,
   decision_notes |-> None, approved_at |-> None]

\* The table maps the ids of the inserted rows to the rows.
Exists(tbl, id) == id \in DOMAIN tbl

\* db.table("leaves").select("*").eq("id", id): the matching rows.
db_select(tbl, id) == IF Exists(tbl, id) THEN <<tbl[id]>> ELSE <<>>

Merge(row, update_data) ==
  [f \in DOMAIN row |-> IF f \in DOMAIN update_data THEN update_data[f] ELSE row[f]]

\* db.table("leaves").update(update_data).eq("id", id): unconditional on the
\* row's contents, a no-op when no row has the id.
db_update(tbl, id, update_data) ==
  [i \in DOMAIN tbl |->
     IF i = id THEN Merge(tbl[i], update_data) ELSE tbl[i]]

\* response.data of the update: the rows it matched.
db_updated(tbl, id) == db_select(tbl, id)

\* db.table("leaves").insert(row).
db_insert(tbl, id, row) == tbl @@ (id :> row)

StatusOf(tbl, id) == IF Exists(tbl, id) THEN tbl[id].status ELSE None

\* -------------------------------------------------------- handler bodies
\* Each handler is a function of the caller, the request and the table,
\* giving the response's kind and the table after the call.
Reply(code, tbl) == [code |-> code, db |-> tbl]

\* hr_approve_leave without its permission check.
hr_allowed_open(current_user) == TRUE

hr_allowed(current_user) == is_admin(current_user) \/ current_user.role = HR

\* hr_approve_leave that records the reviewer but leaves the status alone.
hr_approve_leave_unmoved(current_user, leave_id, tbl) ==
  IF ~hr_allowed(current_user)
    THEN Reply(Forbidden, tbl)
    ELSE Reply(OK, db_update(tbl, leave_id,
                 [hr_reviewed_by |-> current_user.id,
                  hr_reviewed_at |-> Now]))

hr_approve_leave(current_user, leave_id, tbl) ==
  IF ~hr_allowed(current_user)
    THEN Reply(Forbidden, tbl)
    ELSE Reply(OK, db_update(tbl, leave_id,
                 [status |-> FORWARDED_TO_TEAM_LEAD,
                  hr_reviewed_by |-> current_user.id,
                  hr_reviewed_at |-> Now]))

tl_allowed(current_user) ==
  is_admin(current_user) \/ current_user.role = TECHNICAL_LEAD

\* tl_make_decision refusing to approve a leave longer than 3 days.
tl_make_decision_gated(current_user, leave_id, action, notes, tbl) ==
  IF ~tl_allowed(current_user)
    THEN Reply(Forbidden, tbl)
    ELSE IF action = "approve"
      THEN IF Exists(tbl, leave_id) /\ tbl[leave_id].days > 3
             THEN Reply(InvalidState, tbl)
             ELSE Reply(OK, db_update(tbl, leave_id,
                     [status |-> APPROVED, decided_by_id |-> current_user.id,
                      decision_notes |-> notes, approved_at |-> Now]))
      ELSE IF action = "forward_to_pm"
        THEN Reply(OK, db_update(tbl, leave_id,
                     [status |-> PENDING_L7_DECISION, decision_notes |-> notes]))
        ELSE Reply(InvalidArgument, tbl)

tl_make_decision(current_user, leave_id, action, notes, tbl) ==
  IF ~tl_allowed(current_user)
    THEN Reply(Forbidden, tbl)
    ELSE IF action = "approve"
      THEN Reply(OK, db_update(tbl, leave_id,
                   [status |-> APPROVED, decided_by_id |-> current_user.id,
                    decision_notes |-> notes, approved_at |-> Now]))
      ELSE IF action = "forward_to_pm"
        THEN Reply(OK, db_update(tbl, leave_id,
                     [status |-> PENDING_L7_DECISION, decision_notes |-> notes]))
        ELSE Reply(InvalidArgument, tbl)

pm_allowed(current_user) ==
  is_admin(current_user) \/ current_user.role = PROJECT_MANAGER

\* pm_make_decision where every action but approve is taken as reject.
pm_make_decision_lax(current_user, leave_id, action, notes, tbl) ==
  IF ~pm_allowed(current_user)
    THEN Reply(Forbidden, tbl)
    ELSE IF action = "approve"
      THEN Reply(OK, db_update(tbl, leave_id,
                   [status |-> APPROVED, decided_by_id |-> current_user.id,
                    decision_notes |-> notes, approved_at |-> Now]))
      ELSE Reply(OK, db_update(tbl, leave_id,
                   [status |-> REJECTED, decided_by_id |-> current_user.id,
                    decision_notes |-> notes]))

pm_make_decision(current_user, leave_id, action, notes, tbl) ==
  IF ~pm_allowed(current_user)
    THEN Reply(Forbidden, tbl)
    ELSE IF action = "approve"
      THEN Reply(OK, db_update(tbl, leave_id,
                   [status |-> APPROVED, decided_by_id |-> current_user.id,
                    decision_notes |-> notes, approved_at |-> Now]))
      ELSE IF action = "reject"
        THEN Reply(OK, db_update(tbl, leave_id,
                     [status |-> REJECTED, decided_by_id |-> current_user.id,
                      decision_notes |-> notes]))
        ELSE Reply(InvalidArgument, tbl)

lead_allowed(current_user) ==
  is_admin(current_user)
    \/ current_user.role \in {HR, TECHNICAL_LEAD, PROJECT_MANAGER}

\* approve_leave that records no approval timestamp.
approve_leave_unstamped(current_user, leave_id, decision_notes, tbl) ==
  IF ~lead_allowed(current_user)
    THEN Reply(Forbidden, tbl)
    ELSE IF db_updated(tbl, leave_id) = <<>>
      THEN Reply(NotFound, tbl)
      ELSE Reply(OK, db_update(tbl, leave_id,
                   [status |-> APPROVED,
                    decided_by_id |-> current_user.id,
                    decision_notes |-> decision_notes]))

approve_leave(current_user, leave_id, decision_notes, tbl) ==
  IF ~lead_allowed(current_user)
    THEN Reply(Forbidden, tbl)
    ELSE IF db_updated(tbl, leave_id) = <<>>
      THEN Reply(NotFound, tbl)
      ELSE Reply(OK, db_update(tbl, leave_id,
                   [status |-> APPROVED, approved_at |-> Now,
                    decided_by_id |-> current_user.id,
                    decision_notes |-> decision_notes]))

reject_leave(current_user, leave_id, decision_notes, tbl) ==
  IF ~lead_allowed(current_user)
    THEN Reply(Forbidden, tbl)
    ELSE IF db_updated(tbl, leave_id) = <<>>
      THEN Reply(NotFound, tbl)
      ELSE Reply(OK, db_update(tbl, leave_id,
                   [status |-> REJECTED, decided_by_id |-> current_user.id,
                    decision_notes |-> decision_notes]))

\* delete_leave, first statement and the checks on the row it read.
cancel_allowed_status(status) ==
  status \in {PENDING_HR_REVIEW, FORWARDED_TO_TEAM_LEAD}

delete_leave_check(current_user, leave_id, tbl) ==
  LET existing == db_select(tbl, leave_id) IN
  IF existing = <<>> THEN NotFound
  ELSE IF ~is_admin(current_user) /\ existing[1].employee_id # current_user.id
    THEN Forbidden
  ELSE IF ~is_admin(current_user) /\ ~cancel_allowed_status(existing[1].status)
    THEN InvalidState
  ELSE OK

\* delete_leave, second statement: the soft delete.
delete_leave_write(leave_id, tbl) ==
  db_update(tbl, leave_id, [status |-> CANCELLED])

\* update_leave, first statement and the permission check on the row it read.
can_update(current_user, leave) ==
  \/ is_admin(current_user)
  \/ current_user.role = HR
  \/ current_user.role \in {TECHNICAL_LEAD, PROJECT_MANAGER}
  \/ (leave.employee_id = current_user.id /\ leave.status = PENDING_HR_REVIEW)

update_leave_check(current_user, leave_id, tbl) ==
  LET existing == db_select(tbl, leave_id) IN
  IF existing = <<>> THEN NotFound
  ELSE IF ~can_update(current_user, existing[1]) THEN Forbidden
  ELSE OK

\* update_leave, the update_data built from the request.
update_leave_data(current_user, status, decision_notes) ==
  LET st == IF status = None THEN <<>>
            ELSE IF status = APPROVED
              THEN [status |-> status, approved_at |-> Now,
                    decided_by_id |-> current_user.id]
            ELSE IF status = REJECTED
              THEN [status |-> status, decided_by_id |-> current_user.id]
            ELSE IF status = FORWARDED_TO_TEAM_LEAD
              THEN [status |-> status, hr_reviewed_by |-> current_user.id,
                    hr_reviewed_at |-> Now]
            ELSE [status |-> status]
      nt == IF decision_notes = None THEN <<>>
            ELSE [decision_notes |-> decision_notes]
  IN [f \in DOMAIN st \cup DOMAIN nt |->
        IF f \in DOMAIN nt THEN nt[f] ELSE st[f]]

\* update_leave, second statement.
update_leave_write(leave_id, update_data, tbl) ==
  IF db_updated(tbl, leave_id) = <<>>
    THEN Reply(Internal, tbl)
    ELSE Reply(OK, db_update(tbl, leave_id, update_data))


\* ------------------------------------------------------- risk classifier
RiskEmployees == {"u_emp", "u_tl"}
TaskPriorities == {"high", "critical"}
TaskStatuses == {"in_progress", "completed"}
IncidentSeverities == {"medium", "high", "critical"}
IncidentStatuses == {"open", "closed", "resolved"}

TaskRows ==
  [assignee_id : RiskEmployees, priority : TaskPriorities, status : TaskStatuses]

IncidentRows ==
  [assigned_to_id : RiskEmployees, severity : IncidentSeverities,
   status : IncidentStatuses]

SeqsUpTo(S, n) == UNION {[1..k -> S] : k \in 0..n}

\* tasks of the employee with priority critical and status not completed.
critical_tasks_query(employee_id, tks) ==
  SelectSeq(tks, LAMBDA t : /\ t.assignee_id = employee_id
                            /\ t.priority = "critical"
                            /\ t.status # "completed")

\* incidents assigned to the employee, not resolved, severity high or critical.
incidents_query(employee_id, incs) ==
  SelectSeq(incs, LAMBDA i : /\ i.assigned_to_id = employee_id
                             /\ i.status # "resolved"
                             /\ i.severity \in {"high", "critical"})

\* calculate_risk_level with the duration factor at days >= 3.
calculate_risk_level_ge3(leave_days, employee_id, tks, incs, tasks_fail, incidents_fail) ==
  LET critical_count == IF tasks_fail THEN 0
                        ELSE Len(critical_tasks_query(employee_id, tks))
      incident_count == IF incidents_fail THEN 0
                        ELSE Len(incidents_query(employee_id, incs))
      risk_level == IF incident_count > 0 THEN "high"
                    ELSE IF critical_count > 0 \/ leave_days >= 3 THEN "medium"
                    ELSE "low"
  IN [risk_level |-> risk_level, risk_factors |-> <<>>]

\* tasks_fail / incidents_fail: the sub-query raises and the except branch
\* runs, after which the count is 0 and no factor was appended.
calculate_risk_level(leave_days, employee_id, tks, incs, tasks_fail, incidents_fail) ==
  LET f1 == IF leave_days > 3 THEN <<[type |-> "extended_absence", count |-> leave_days]>>
            ELSE <<>>
      critical_count == IF tasks_fail THEN 0
                        ELSE Len(critical_tasks_query(employee_id, tks))
      f2 == IF critical_count > 0
              THEN <<[type |-> "critical_tasks", count |-> critical_count]>>
              ELSE <<>>
      incident_count == IF incidents_fail THEN 0
                        ELSE Len(incidents_query(employee_id, incs))
      f3 == IF incident_count > 0
              THEN <<[type |-> "blocking_incidents", count |-> incident_count]>>
              ELSE <<>>
      risk_level == IF incident_count > 0 THEN "high"
                    ELSE IF critical_count > 0 \/ leave_days > 3 THEN "medium"
                    ELSE "low"
  IN [risk_level |-> risk_level, risk_factors |-> f1 \o f2 \o f3]

\* The recommendation of get_risk_analysis with requires_pm_approval for a
\* high risk only.
get_risk_analysis_high_only(leave_days, employee_id, tks, incs, tasks_fail, incidents_fail) ==
  LET r == calculate_risk_level(leave_days, employee_id, tks, incs,
                                tasks_fail, incidents_fail)
  IN [risk_level |-> r.risk_level, risk_factors |-> r.risk_factors,
      tl_can_approve |-> r.risk_level = "low",
      requires_pm_approval |-> r.risk_level = "high",
      can_tl_approve |-> FALSE]

\* get_risk_analysis from the leave row on: the risk and the recommendation.
get_risk_analysis(leave_days, employee_id, tks, incs, tasks_fail, incidents_fail) ==
  LET r == calculate_risk_level(leave_days, employee_id, tks, incs,
                                tasks_fail, incidents_fail)
  IN [risk_level |-> r.risk_level, risk_factors |-> r.risk_factors,
      tl_can_approve |-> r.risk_level = "low",
      requires_pm_approval |-> r.risk_level \in {"medium", "high"},
      can_tl_approve |-> FALSE]

\* Roles whose pending list can hold a row; every other role gets no row.
can_list(current_user) ==
  \/ is_admin(current_user)
  \/ current_user.role \in {HR, TECHNICAL_LEAD, PROJECT_MANAGER}

\* get_pending_leaves: the enrichment of one listed leave.
pending_entry(current_user, leave_days, employee_id, tks, incs, tasks_fail, incidents_fail) ==
  LET r == calculate_risk_level(leave_days, employee_id, tks, incs,
                                tasks_fail, incidents_fail)
  IN [risk_level |-> r.risk_level, risk_factors |-> r.risk_factors,
      tl_can_approve |-> FALSE,
      requires_pm_approval |-> FALSE,
      can_tl_approve |-> /\ r.risk_level = "low"
                         /\ current_user.role = TECHNICAL_LEAD]

NoRisk ==
  [op |-> None, viewer |-> None, employee_id |-> None, leave_days |-> 0,
   tasks_fail |-> FALSE, incidents_fail |-> FALSE, risk_level |-> None,
   risk_factors |-> <<>>, tl_can_approve |-> FALSE,
   requires_pm_approval |-> FALSE, can_tl_approve |-> FALSE]

\* ---------------------------------------------------- workload calculator
Min(a, b) == IF a < b THEN a ELSE b

\* weight_map.get(priority, 20)
weight_map(priority) ==
  CASE priority = "critical" -> 40
    [] priority = "high" -> 30
    [] priority = "medium" -> 20
    [] priority = "low" -> 10
    [] OTHER -> 20

TaskWeight(t) == weight_map(t.priority)

\* sum(weight of each row) over the rows of a query result.
RECURSIVE SumWeights(_)
SumWeights(rows) ==
  IF rows = <<>> THEN 0 ELSE TaskWeight(Head(rows)) + SumWeights(Tail(rows))

\* tasks of the employee with status other than completed.
active_tasks_query(employee_id, tks) ==
  SelectSeq(tks, LAMBDA t : t.assignee_id = employee_id /\ t.status # "completed")

\* calculate_workload without the cap at 100.
calculate_workload_uncapped(employee_id, tks) ==
  SumWeights(active_tasks_query(employee_id, tks))

calculate_workload(employee_id, tks) ==
  Min(SumWeights(active_tasks_query(employee_id, tks)), 100)

NoWorkload == [employee_id |-> None, ntasks |-> 0, score |-> 0]

\* ------------------------------------------------------- conflict analyzer
APPROVED_BY_L7 == "APPROVED_BY_L7"
PENDING_L6 == "PENDING_L6"

\* calculate_skill_match counting a skill as matched above 60 only.
calculate_skill_match_above60(required_skills, employee_skills) ==
  IF DOMAIN required_skills = {} THEN 100
  ELSE LET RECURSIVE Weight(_)
           Weight(S) == IF S = {} THEN 0
                        ELSE LET k == CHOOSE x \in S : TRUE
                             IN required_skills[k] + Weight(S \ {k})
           score(k) == IF k \in DOMAIN employee_skills THEN employee_skills[k] ELSE 0
           total_weight == Weight(DOMAIN required_skills)
           matched_weight == Weight({k \in DOMAIN required_skills : score(k) > 60})
       IN IF total_weight > 0 THEN (matched_weight * 100) \div total_weight ELSE 0

\* matched_weight / total_weight * 100, rounded down; 100 when nothing is
\* required.  employee_skills maps a skill to its score.
calculate_skill_match(required_skills, employee_skills) ==
  IF DOMAIN required_skills = {} THEN 100
  ELSE LET RECURSIVE Weight(_)
           Weight(S) == IF S = {} THEN 0
                        ELSE LET k == CHOOSE x \in S : TRUE
                             IN required_skills[k] + Weight(S \ {k})
           score(k) == IF k \in DOMAIN employee_skills THEN employee_skills[k] ELSE 0
           total_weight == Weight(DOMAIN required_skills)
           matched_weight == Weight({k \in DOMAIN required_skills : score(k) >= 60})
       IN IF total_weight > 0 THEN (matched_weight * 100) \div total_weight ELSE 0

NoSkill ==
  [op |-> None, required_skills |-> [k \in {} |-> 0],
   employee_skills |-> [k \in {} |-> 0], alt_skills |-> <<>>, skill_match |-> 0]

\* incidents owned by the employee, not resolved, severity high or critical.
has_blocking_incident(employee_id, incs) ==
  Len(SelectSeq(incs, LAMBDA i : /\ i.owner_id = employee_id
                                 /\ i.status # "resolved"
                                 /\ i.severity \in {"high", "critical"})) > 0

NoAlternate == [id |-> None, skill_match |-> 0, availability |-> 0]

\* {skill: 80 for skill in alt_skills}
skills_dict(alt_skills) ==
  [k \in {alt_skills[j] : j \in 1..Len(alt_skills)} |-> 80]

\* The loop of find_valid_alternate over the rows the users query returned.
RECURSIVE first_valid(_, _, _, _, _)
first_valid(employee_id, critical_task, users, tks, incs) ==
  IF users = <<>> THEN NoAlternate
  ELSE LET user == Head(users)
           skill_match == calculate_skill_match(critical_task.required_skills,
                                                skills_dict(user.skills))
           availability == 100 - calculate_workload(user.id, tks)
           has_incident == has_blocking_incident(user.id, incs)
       IN IF user.id = employee_id
            THEN first_valid(employee_id, critical_task, Tail(users), tks, incs)
          ELSE IF skill_match >= 80 /\ availability >= 30 /\ ~has_incident
            THEN [id |-> user.id, skill_match |-> skill_match,
                  availability |-> availability]
          ELSE first_valid(employee_id, critical_task, Tail(users), tks, incs)

find_valid_alternate(employee_id, critical_task, users, tks, incs) ==
  first_valid(employee_id, critical_task,
              SelectSeq(users, LAMBDA u : u.status = "active"), tks, incs)

\* The pending-task query taking not_started for open.
pending_tasks_query_not_started(employee_id, tks) ==
  SelectSeq(tks, LAMBDA t : /\ t.assignee_id = employee_id
                            /\ t.status \in {"not_started", "blocked"})

\* tasks of the employee in status open or blocked.
pending_tasks_query(employee_id, tks) ==
  SelectSeq(tks, LAMBDA t : /\ t.assignee_id = employee_id
                            /\ t.status \in {"open", "blocked"})

Decision(final, can_l7_approve) ==
  [final_decision |-> final, can_l7_approve |-> can_l7_approve]

\* The decision with a critical task approved once an alternate is found.
final_decision_alternate_ok(has_incident, has_critical_task, has_pending, found) ==
  IF has_incident \/ (has_critical_task /\ ~found) THEN Decision(PENDING_L6, FALSE)
  ELSE IF has_pending THEN Decision(PENDING_L6, FALSE)
  ELSE Decision(APPROVED_BY_L7, TRUE)

final_decision(has_incident, has_critical_task, has_pending, found) ==
  IF has_incident \/ (has_critical_task /\ ~found) THEN Decision(PENDING_L6, FALSE)
  ELSE IF has_critical_task \/ has_pending THEN Decision(PENDING_L6, FALSE)
  ELSE Decision(APPROVED_BY_L7, TRUE)

SubQueries == {"critical_tasks", "pending_tasks", "incidents", "alternate"}

NoAnalysis ==
  [leave_id |-> 0, code |-> None, employee_id |-> None, failed |-> None,
   resource_hold |-> FALSE, pending_tasks |-> FALSE,
   incident_hard_block |-> FALSE, has_valid_alternate |-> FALSE,
   valid_alternate |-> NoAlternate, final_decision |-> None,
   can_l7_approve |-> FALSE]

\* analyze_leave_conflict answering 500 when a sub-query raises.
analyze_leave_conflict_strict(leave_id, tbl, users, tks, incs, failed) ==
  [NoAnalysis EXCEPT !.leave_id = leave_id,
                     !.code = IF Exists(tbl, leave_id) THEN Internal ELSE NotFound,
                     !.failed = failed]

\* failed: the sub-query that raised (None when all answered); its except
\* branch leaves the factor absent.
analyze_leave_conflict(leave_id, tbl, users, tks, incs, failed) ==
  IF ~Exists(tbl, leave_id)
    THEN [NoAnalysis EXCEPT !.leave_id = leave_id, !.code = NotFound]
  ELSE LET employee_id == tbl[leave_id].employee_id IN
  IF \A j \in 1..Len(users) : users[j].id # employee_id
    THEN [NoAnalysis EXCEPT !.leave_id = leave_id, !.code = NotFound,
                            !.employee_id = employee_id]
  ELSE
    LET critical_tasks == IF failed = "critical_tasks" THEN <<>>
                          ELSE critical_tasks_query(employee_id, tks)
        has_critical_task == Len(critical_tasks) > 0
        has_pending == IF failed = "pending_tasks" THEN FALSE
                       ELSE Len(pending_tasks_query(employee_id, tks)) > 0
        has_incident == IF failed = "incidents" THEN FALSE
                        ELSE has_blocking_incident(employee_id, incs)
        valid_alternate ==
          IF has_critical_task /\ failed # "alternate"
            THEN find_valid_alternate(employee_id, critical_tasks[1], users,
                                      tks, incs)
            ELSE NoAlternate
        found == valid_alternate.id # None
        decision == final_decision(has_incident, has_critical_task, has_pending,
                                   found)
    IN [leave_id |-> leave_id, code |-> OK, employee_id |-> employee_id,
        failed |-> failed,
        resource_hold |-> has_critical_task, pending_tasks |-> has_pending,
        incident_hard_block |-> has_incident,
        has_valid_alternate |-> IF has_critical_task THEN found ELSE TRUE,
        valid_alternate |-> valid_alternate,
        final_decision |-> decision.final_decision,
        can_l7_approve |-> decision.can_l7_approve]

\* ------------------------------------------------------ incident endpoints
\* Each handler gives the response's kind, the incident table and the
\* users' has_blocking_incident flags after the call.  An incident's id is
\* its position in the table.
IncidentReply(code, incs, flags) == [code |-> code, incs |-> incs, flags |-> flags]

valid_statuses == {"open", "in_progress", "resolved", "closed"}

create_incident(current_user, severity, assigned_to_id, incs, flags) ==
  IncidentReply(OK,
    Append(incs, [assigned_to_id |-> assigned_to_id, severity |-> severity,
                  status |-> "open"]),
    IF severity \in {"high", "critical"} /\ assigned_to_id # None
      THEN [flags EXCEPT ![assigned_to_id] = TRUE]
      ELSE flags)

\* remaining of resolve_incident: the assignee's high/critical incidents in
\* status open.
remaining_open(assigned_to_id, incs) ==
  SelectSeq(incs, LAMBDA i : /\ i.assigned_to_id = assigned_to_id
                             /\ i.severity \in {"high", "critical"}
                             /\ i.status = "open")

\* remaining of update_incident_status: the assignee's high/critical
\* incidents in a status other than resolved.
remaining_unresolved(assigned_to_id, incs) ==
  SelectSeq(incs, LAMBDA i : /\ i.assigned_to_id = assigned_to_id
                             /\ i.severity \in {"high", "critical"}
                             /\ i.status # "resolved")

resolve_incident(incident_id, incs, flags) ==
  IF incident_id \notin 1..Len(incs)
    THEN IncidentReply(NotFound, incs, flags)
    ELSE LET updated == [incs EXCEPT ![incident_id].status = "resolved"]
             a == updated[incident_id].assigned_to_id
         IN IncidentReply(OK, updated,
              IF a # None /\ remaining_open(a, updated) = <<>>
                THEN [flags EXCEPT ![a] = FALSE]
                ELSE flags)

update_incident_status(current_user, incident_id, status, incs, flags) ==
  IF status \notin valid_statuses
    THEN IncidentReply(InvalidArgument, incs, flags)
  ELSE IF incident_id \notin 1..Len(incs)
    THEN IncidentReply(NotFound, incs, flags)
  ELSE IF /\ ~is_admin(current_user)
          /\ current_user.id # incs[incident_id].assigned_to_id
          /\ current_user.role \notin {TECHNICAL_LEAD, PROJECT_MANAGER}
    THEN IncidentReply(Forbidden, incs, flags)
  ELSE LET updated == [incs EXCEPT ![incident_id].status = status]
           a == incs[incident_id].assigned_to_id
       IN IncidentReply(OK, updated,
            IF status = "resolved" /\ a # None
               /\ remaining_unresolved(a, updated) = <<>>
              THEN [flags EXCEPT ![a] = FALSE]
              ELSE flags)

\* -------------------------------------------------------------- the calls
\* Calls in flight are counted, not named: a call that has not run a
\* statement yet is one of `busy`, a delete_leave or update_leave between
\* its two statements is an entry of the bag `pend`.  `old` counts the busy
\* calls that were already accepted when the last answer was given.
NoCall ==
  [op |-> None, actor |-> None, leave_id |-> 0, action |-> None, code |-> None,
   waited |-> FALSE]

InFlight == busy + BagCardinality(pend)

\* A busy call starts to run; w says whether it is one of the old ones.
Start(w) == IF w THEN old > 0 ELSE busy > old

\* The answer of a call, with the table the call leaves behind.  waited:
\* the call was accepted, and had not run, when the previous answer was given.
Answer(op, u, leave_id, action, code, w, tbl) ==
  /\ leaves' = tbl
  /\ last' = [op |-> op, actor |-> u, leave_id |-> leave_id, action |-> action,
              code |-> code, waited |-> w]
  /\ UNCHANGED <<ncalls, tasks, incidents, risk, pool, workload, analysis,
                 skill, blocking_flag>>

\* The answer of a handler with a single statement.
Respond(op, u, leave_id, action, code, w, tbl) ==
  /\ Start(w)
  /\ busy' = busy - 1
  /\ old' = busy - 1
  /\ pend' = pend
  /\ Answer(op, u, leave_id, action, code, w, tbl)

\* A handler has read and checked the row; its write is still to come.
ReadDone(op, u, leave_id, w) ==
  /\ Start(w)
  /\ busy' = busy - 1
  /\ old' = IF w THEN old - 1 ELSE old
  /\ pend' = pend (+) SetToBag({[op |-> op, actor |-> u, leave_id |-> leave_id]})
  /\ UNCHANGED <<ncalls, leaves, last, tasks, incidents, risk, pool, workload,
               analysis, skill, blocking_flag>>

\* The answer of a handler after its second statement.
WriteDone(r, action, code, tbl) ==
  /\ BagIn(r, pend)
  /\ pend' = pend (-) SetToBag({r})
  /\ busy' = busy
  /\ old' = busy
  /\ Answer(r.op, r.actor, r.leave_id, action, code, FALSE, tbl)

\* A call is accepted by the server; its handler has not touched the table.
Issue ==
  /\ InFlight < NumWorkers
  /\ ncalls < MaxCalls
  /\ ncalls' = ncalls + 1
  /\ busy' = busy + 1
  /\ UNCHANGED <<leaves, old, pend, last, tasks, incidents, risk, pool, workload,
               analysis, skill, blocking_flag>>

CreateLeave(u, days, w) ==
  /\ u \in Requesters
  /\ \E id \in LeaveIds :
       /\ id \notin DOMAIN leaves
       /\ \A j \in LeaveIds : j < id => j \in DOMAIN leaves
       /\ Respond("create", u, id, None, OK, w,
                  db_insert(leaves, id, new_leave(u, days)))

HrApprove(u, id, w) ==
  LET r == hr_approve_leave(Users[u], id, leaves)
  IN Respond("hr_approve", u, id, None, r.code, w, r.db)

TlDecision(u, id, action, notes, w) ==
  LET r == tl_make_decision(Users[u], id, action, notes, leaves)
  IN Respond("tl_decision", u, id, action, r.code, w, r.db)

PmDecision(u, id, action, notes, w) ==
  LET r == pm_make_decision(Users[u], id, action, notes, leaves)
  IN Respond("pm_decision", u, id, action, r.code, w, r.db)

ApproveLeave(u, id, notes, w) ==
  LET r == approve_leave(Users[u], id, notes, leaves)
  IN Respond("approve", u, id, None, r.code, w, r.db)

RejectLeave(u, id, notes, w) ==
  LET r == reject_leave(Users[u], id, notes, leaves)
  IN Respond("reject", u, id, None, r.code, w, r.db)

\* delete_leave up to its checks: it fails here or goes on to the write.
CancelRead(u, id, w) ==
  LET c == delete_leave_check(Users[u], id, leaves) IN
  IF c = OK THEN ReadDone("cancel", u, id, w)
            ELSE Respond("cancel", u, id, None, c, w, leaves)

CancelWrite(r) ==
  /\ r.op = "cancel"
  /\ WriteDone(r, None, OK, delete_leave_write(r.leave_id, leaves))

\* update_leave up to its permission check.
UpdateRead(u, id, w) ==
  LET c == update_leave_check(Users[u], id, leaves) IN
  IF c = OK THEN ReadDone("update", u, id, w)
            ELSE Respond("update", u, id, None, c, w, leaves)

\* update_leave from the building of update_data on.
UpdateWrite(r, status, notes) ==
  /\ r.op = "update"
  /\ LET x == update_leave_write(r.leave_id,
                 update_leave_data(Users[r.actor], status, notes), leaves)
     IN WriteDone(r, status, x.code, x.db)

Init ==
  /\ ncalls = 0
  /\ leaves = <<>>
  /\ busy = 0
  /\ old = 0
  /\ pend = EmptyBag
  /\ last = NoCall
  /\ tasks = <<>>
  /\ incidents = <<>>
  /\ risk = NoRisk
  /\ pool = <<>>
  /\ workload = NoWorkload
  /\ analysis = NoAnalysis
  /\ skill = NoSkill
  /\ blocking_flag = NoFlags

Next ==
  \/ Issue
  \/ \E u \in UserIds, d \in LeaveDays, w \in BOOLEAN : CreateLeave(u, d, w)
  \/ \E u \in UserIds, id \in CallIds, w \in BOOLEAN : HrApprove(u, id, w)
  \/ \E u \in UserIds, id \in CallIds, a \in TlActions, n \in NotesIn, w \in BOOLEAN :
       TlDecision(u, id, a, n, w)
  \/ \E u \in UserIds, id \in CallIds, a \in PmActions, n \in NotesIn, w \in BOOLEAN :
       PmDecision(u, id, a, n, w)
  \/ \E u \in UserIds, id \in CallIds, n \in NotesIn, w \in BOOLEAN :
       ApproveLeave(u, id, n, w)
  \/ \E u \in UserIds, id \in CallIds, n \in NotesIn, w \in BOOLEAN :
       RejectLeave(u, id, n, w)
  \/ \E u \in UserIds, id \in CallIds, w \in BOOLEAN : CancelRead(u, id, w)
  \/ \E r \in BagToSet(pend) : CancelWrite(r)
  \/ \E u \in UserIds, id \in CallIds, w \in BOOLEAN : UpdateRead(u, id, w)
  \/ \E r \in BagToSet(pend), s \in Statuses \cup {None}, n \in NotesIn :
       UpdateWrite(r, s, n)

Spec == Init /\ [][Next]_vars

\* ------------------------------------------- the risk classifier on its own
\* An advisory answer r over the task and incident tables is recorded.  The
\* endpoints only read the tables, so one answer per run covers them all.
AssessRisk(op, viewer, employee_id, leave_days, tasks_fail, incidents_fail, r) ==
  /\ risk = NoRisk
  /\ risk' = [op |-> op, viewer |-> viewer, employee_id |-> employee_id,
              leave_days |-> leave_days, tasks_fail |-> tasks_fail,
              incidents_fail |-> incidents_fail, risk_level |-> r.risk_level,
              risk_factors |-> r.risk_factors,
              tl_can_approve |-> r.tl_can_approve,
              requires_pm_approval |-> r.requires_pm_approval,
              can_tl_approve |-> r.can_tl_approve]
  /\ UNCHANGED <<ncalls, leaves, busy, old, pend, last, tasks, incidents, pool,
                 workload, analysis, skill, blocking_flag>>

\* GET /{leave_id}/risk-analysis of a leave of employee_id over leave_days.
RiskAnalysis(employee_id, leave_days, tasks_fail, incidents_fail) ==
  AssessRisk("risk_analysis", None, employee_id, leave_days, tasks_fail,
             incidents_fail,
             get_risk_analysis(leave_days, employee_id, tasks, incidents,
                               tasks_fail, incidents_fail))

\* GET /pending by user u: one row of the list it returns.
PendingEntry(u, employee_id, leave_days, tasks_fail, incidents_fail) ==
  /\ can_list(Users[u])
  /\ AssessRisk("pending", u, employee_id, leave_days, tasks_fail,
                incidents_fail,
                pending_entry(Users[u], leave_days, employee_id, tasks,
                              incidents, tasks_fail, incidents_fail))

InitRisk ==
  /\ ncalls = 0
  /\ leaves = <<>>
  /\ busy = 0
  /\ old = 0
  /\ pend = EmptyBag
  /\ last = NoCall
  /\ tasks \in SeqsUpTo(TaskRows, MaxTasks)
  /\ incidents \in SeqsUpTo(IncidentRows, MaxIncidents)
  /\ risk = NoRisk
  /\ pool = <<>>
  /\ workload = NoWorkload
  /\ analysis = NoAnalysis
  /\ skill = NoSkill
  /\ blocking_flag = NoFlags

NextRisk ==
  /\ risk = NoRisk
  /\ \/ \E e \in RiskEmployees, d \in 1..MaxDays, tf \in BOOLEAN, jf \in BOOLEAN :
          RiskAnalysis(e, d, tf, jf)
     \/ \E u \in UserIds, e \in RiskEmployees, d \in 1..MaxDays,
           tf \in BOOLEAN, jf \in BOOLEAN :
          PendingEntry(u, e, d, tf, jf)

SpecRisk == InitRisk /\ [][NextRisk]_vars

\* --------------------------------- the Technical Lead's decision and the risk
\* A request of d days that HR has forwarded to the team lead (the calls
\* create_leave and hr_approve_leave have been served), over any task and
\* incident tables; one more call is served.
forwarded_leave(employee_id, days) ==
  [new_leave(employee_id, days) EXCEPT
     !.status = FORWARDED_TO_TEAM_LEAD, !.hr_reviewed_by = "u_hr",
     !.hr_reviewed_at = Now]

InitGate ==
  /\ ncalls = MaxCalls - 1
  /\ \E d \in {2, MaxDays} : leaves = (1 :> forwarded_leave("u_emp", d))
  /\ busy = 0
  /\ old = 0
  /\ pend = EmptyBag
  /\ last = [op |-> "hr_approve", actor |-> "u_hr", leave_id |-> 1,
             action |-> None, code |-> OK, waited |-> FALSE]
  /\ tasks \in SeqsUpTo(TaskRows, MaxTasks)
  /\ incidents \in SeqsUpTo(IncidentRows, MaxIncidents)
  /\ risk = NoRisk
  /\ pool = <<>>
  /\ workload = NoWorkload
  /\ analysis = NoAnalysis
  /\ skill = NoSkill
  /\ blocking_flag = NoFlags

NextGate ==
  \/ Issue
  \/ \E u \in UserIds, id \in CallIds, a \in TlActions, n \in NotesIn, w \in BOOLEAN :
       TlDecision(u, id, a, n, w)

SpecGate == InitGate /\ [][NextGate]_vars

\* ------------------------------------------- the workload calculator on its own
WorkEmployees == {"u_emp", "u_tl"}
WorkPriorities == {"critical", "high", "medium", "low"}
WorkStatuses == {"in_progress", "completed"}
TaskCreators == {"u_tl"}

WorkTaskRows ==
  [assignee_id : WorkEmployees, priority : WorkPriorities, status : WorkStatuses]

create_task_allowed(current_user) ==
  is_admin(current_user) \/ current_user.role \in {PROJECT_MANAGER, TECHNICAL_LEAD}

\* POST /tasks: the row is appended to the task table.
CreateTask(u, row) ==
  /\ create_task_allowed(Users[u])
  /\ Len(tasks) < MaxWorkTasks
  /\ tasks' = Append(tasks, row)
  /\ UNCHANGED <<ncalls, leaves, busy, old, pend, last, incidents, risk, pool,
                 workload, analysis, skill, blocking_flag>>

\* The workload of an employee over the task table as it is now; ntasks
\* tells how many rows the table had.
Workload(employee_id) ==
  /\ workload' = [employee_id |-> employee_id, ntasks |-> Len(tasks),
                  score |-> calculate_workload(employee_id, tasks)]
  /\ UNCHANGED <<ncalls, leaves, busy, old, pend, last, tasks, incidents, risk,
                 pool, analysis, skill, blocking_flag>>

InitWorkload ==
  /\ ncalls = 0
  /\ leaves = <<>>
  /\ busy = 0
  /\ old = 0
  /\ pend = EmptyBag
  /\ last = NoCall
  /\ tasks = <<>>
  /\ incidents = <<>>
  /\ risk = NoRisk
  /\ pool = <<>>
  /\ workload = NoWorkload
  /\ analysis = NoAnalysis
  /\ skill = NoSkill
  /\ blocking_flag = NoFlags

NextWorkload ==
  \/ \E u \in TaskCreators, row \in WorkTaskRows : CreateTask(u, row)
  \/ \E e \in WorkEmployees : Workload(e)

SpecWorkload == InitWorkload /\ [][NextWorkload]_vars

\* ------------------------------------------- the conflict analyzer on its own
ConflictEmployees == {"u_emp", "u_tl"}
Candidates == {"u_tl", "u_pm"}
RequiredSkills == ("python" :> 3) @@ ("sql" :> 1)
SkillLists == {<<"python">>, <<"python", "sql">>}

ConflictTaskRows ==
  [assignee_id : ConflictEmployees, priority : {"critical", "low"},
   status : {"open", "in_progress", "completed"},
   required_skills : {RequiredSkills}, project_id : {"p1"}]

ConflictIncidentRows ==
  [assigned_to_id : ConflictEmployees, owner_id : ConflictEmployees,
   severity : {"medium", "high"}, status : {"open", "resolved"}]

\* The requester's own row of the users table.
RequesterRow ==
  [id |-> "u_emp", status |-> "active", skills |-> <<"python", "sql">>]

CandidateRows ==
  [id : Candidates, status : {"active", "on_leave"}, skills : SkillLists]

\* project_members: the requester and u_tl work on project p1.
project_members == {<<"p1", "u_emp">>, <<"p1", "u_tl">>}

\* row put into the sequence before position k.
InsertAt(rows, k, row) ==
  SubSeq(rows, 1, k - 1) \o <<row>> \o SubSeq(rows, k, Len(rows))

\* Users tables: the requester's row among c rows of distinct candidates.
UsersTables(c) ==
  {InsertAt(cs, k, RequesterRow) :
     cs \in {x \in [1..c -> CandidateRows] :
               \A i, j \in 1..c : i # j => x[i].id # x[j].id},
     k \in 1..(c + 1)}

\* Analyze that also writes its decision into the notes of the leave row.
Analyze_recording(leave_id, failed) ==
  LET a == analyze_leave_conflict(leave_id, leaves, pool, tasks, incidents, failed)
  IN /\ analysis = NoAnalysis
     /\ analysis' = a
     /\ leaves' = db_update(leaves, leave_id, [decision_notes |-> a.final_decision])
     /\ UNCHANGED <<ncalls, busy, old, pend, last, tasks, incidents, risk, pool,
                    workload, skill, blocking_flag>>

\* GET /leave-conflicts/analyze/{leave_id}; failed names the sub-query that
\* raises in this call.  The endpoint only reads, so one answer per run
\* covers every table.
Analyze(leave_id, failed) ==
  /\ analysis = NoAnalysis
  /\ analysis' = analyze_leave_conflict(leave_id, leaves, pool, tasks,
                                        incidents, failed)
  /\ UNCHANGED <<ncalls, leaves, busy, old, pend, last, tasks, incidents, risk,
                 pool, workload, skill, blocking_flag>>

\* One leave request of the requester, and any tables of at most MaxRows
\* rows together.
InitConflict ==
  /\ ncalls = 0
  /\ leaves = (1 :> new_leave("u_emp", 2))
  /\ busy = 0
  /\ old = 0
  /\ pend = EmptyBag
  /\ last = NoCall
  /\ risk = NoRisk
  /\ workload = NoWorkload
  /\ analysis = NoAnalysis
  /\ skill = NoSkill
  /\ blocking_flag = NoFlags
  /\ \E a \in 0..MaxRows : \E b \in 0..(MaxRows - a) :
       \E c \in 0..Min(MaxRows - a - b, Cardinality(Candidates)) :
         /\ tasks \in [1..a -> ConflictTaskRows]
         /\ incidents \in [1..b -> ConflictIncidentRows]
         /\ pool \in UsersTables(c)

NextConflict ==
  /\ analysis = NoAnalysis
  /\ \E id \in CallIds, f \in SubQueries \cup {None} : Analyze(id, f)

SpecConflict == InitConflict /\ [][NextConflict]_vars

\* ------------------------------------------------ the skill matcher on its own
SkillNames == {"python", "sql", "go"}
SkillScores == {59, 60, 80}
AltSkillLists ==
  {<<>>, <<"python">>, <<"sql">>, <<"python", "sql">>, <<"go", "python">>,
   <<"python", "sql", "go">>}

\* Weighted requirement mappings and per-skill scores over the skill names.
RequirementMaps == UNION {[S -> 0..MaxWeight] : S \in SUBSET SkillNames}
ScoreMaps == UNION {[S -> SkillScores] : S \in SUBSET SkillNames}

\* calculate_skill_match(required_skills, employee_skills) is called.
SkillMatch(required_skills, employee_skills) ==
  /\ skill' = [op |-> "scores", required_skills |-> required_skills,
               employee_skills |-> employee_skills, alt_skills |-> <<>>,
               skill_match |-> calculate_skill_match(required_skills,
                                                     employee_skills)]
  /\ UNCHANGED <<ncalls, leaves, busy, old, pend, last, tasks, incidents, risk,
                 pool, workload, analysis, blocking_flag>>

\* The call of find_valid_alternate for a user whose skills are a flat list.
SkillMatchList(required_skills, alt_skills) ==
  /\ skill' = [op |-> "list", required_skills |-> required_skills,
               employee_skills |-> skills_dict(alt_skills),
               alt_skills |-> alt_skills,
               skill_match |-> calculate_skill_match(required_skills,
                                                     skills_dict(alt_skills))]
  /\ UNCHANGED <<ncalls, leaves, busy, old, pend, last, tasks, incidents, risk,
                 pool, workload, analysis, blocking_flag>>

NextSkill ==
  /\ skill.op = None
  /\ \/ \E r \in RequirementMaps, e \in ScoreMaps : SkillMatch(r, e)
     \/ \E r \in RequirementMaps, l \in AltSkillLists : SkillMatchList(r, l)

SpecSkill == Init /\ [][NextSkill]_vars

\* --------------------------------- both advisory computations, same tables
\* One advisory call (conflict analysis, risk analysis or a row of the
\* pending list) over any task and incident tables of at most
\* MaxAdvisoryRows rows together, for the requester's leave.
AdvisoryDays == {2, 5}

\* Task rows with the statuses of the task model, and the status open that
\* the analyzer asks for.
AdvisoryTaskRows ==
  [assignee_id : ConflictEmployees, priority : {"critical", "low"},
   status : {"not_started", "in_progress", "blocked", "completed", "open"},
   required_skills : {RequiredSkills}, project_id : {"p1"}]

AdvisoryPools ==
  {<<RequesterRow>>,
   <<RequesterRow, [id |-> "u_tl", status |-> "active", skills |-> <<"python", "sql">>]>>}

InitAdvisory ==
  /\ ncalls = 0
  /\ leaves = (1 :> new_leave("u_emp", 2))
  /\ busy = 0
  /\ old = 0
  /\ pend = EmptyBag
  /\ last = NoCall
  /\ risk = NoRisk
  /\ workload = NoWorkload
  /\ analysis = NoAnalysis
  /\ skill = NoSkill
  /\ blocking_flag = NoFlags
  /\ pool \in AdvisoryPools
  /\ \E a \in 0..MaxAdvisoryRows : \E b \in 0..(MaxAdvisoryRows - a) :
       /\ tasks \in [1..a -> AdvisoryTaskRows]
       /\ incidents \in [1..b -> ConflictIncidentRows]

NextAdvisory ==
  /\ analysis = NoAnalysis
  /\ risk = NoRisk
  /\ \/ \E id \in CallIds, f \in SubQueries \cup {None} : Analyze(id, f)
     \/ \E d \in AdvisoryDays, tf \in BOOLEAN, jf \in BOOLEAN :
          RiskAnalysis("u_emp", d, tf, jf)
     \/ \E u \in UserIds, d \in AdvisoryDays, tf \in BOOLEAN, jf \in BOOLEAN :
          PendingEntry(u, "u_emp", d, tf, jf)

SpecAdvisory == InitAdvisory /\ [][NextAdvisory]_vars

\* ------------------------------------------- the incident endpoints on their own
IncidentActors == {"u_emp", "u_tl", "u_hr"}
Assignees == {"u_emp", "u_tl"}
FiledSeverities == {"medium", "high"}
StatusesIn == {"open", "in_progress", "resolved", "escalated"}

\* The answer of an incident endpoint; last names the call (leave_id holds
\* the id of the incident, action the status or severity of the request).
IncidentAnswer(op, u, incident_id, action, r) ==
  /\ incidents' = r.incs
  /\ blocking_flag' = r.flags
  /\ last' = [op |-> op, actor |-> u, leave_id |-> incident_id,
              action |-> action, code |-> r.code, waited |-> FALSE]
  /\ UNCHANGED <<ncalls, leaves, busy, old, pend, tasks, risk, pool, workload,
                 analysis, skill>>

CreateIncident(u, severity, assigned_to_id) ==
  /\ Len(incidents) < MaxFiled
  /\ IncidentAnswer("create_incident", u, Len(incidents) + 1, severity,
                    create_incident(Users[u], severity, assigned_to_id,
                                    incidents, blocking_flag))

ResolveIncident(u, incident_id) ==
  IncidentAnswer("resolve_incident", u, incident_id, "resolved",
                 resolve_incident(incident_id, incidents, blocking_flag))

UpdateIncidentStatus(u, incident_id, status) ==
  IncidentAnswer("update_incident_status", u, incident_id, status,
                 update_incident_status(Users[u], incident_id, status,
                                        incidents, blocking_flag))

NextIncident ==
  \/ \E u \in IncidentActors, s \in FiledSeverities, a \in Assignees :
       CreateIncident(u, s, a)
  \/ \E u \in IncidentActors, id \in 1..(MaxFiled + 1) : ResolveIncident(u, id)
  \/ \E u \in IncidentActors, id \in 1..(MaxFiled + 1), s \in StatusesIn :
       UpdateIncidentStatus(u, id, s)

SpecIncident == Init /\ [][NextIncident]_vars

\* ------------------------------------------------- one call after the other
\* The client of test_leave_manager.py: it sends a call only after the
\* previous one was answered, to the four endpoints of the workflow.
IssueFlow ==
  /\ InFlight = 0
  /\ ncalls < MaxFlowCalls
  /\ ncalls' = ncalls + 1
  /\ busy' = busy + 1
  /\ UNCHANGED <<leaves, old, pend, last, tasks, incidents, risk, pool, workload,
               analysis, skill, blocking_flag>>

NextFlow ==
  \/ IssueFlow
  \/ \E u \in UserIds, d \in LeaveDays : CreateLeave(u, d, FALSE)
  \/ \E u \in UserIds, id \in CallIds : HrApprove(u, id, FALSE)
  \/ \E u \in UserIds, id \in CallIds, a \in TlActions, n \in NotesIn :
       TlDecision(u, id, a, n, FALSE)
  \/ \E u \in UserIds, id \in CallIds, a \in PmActions, n \in NotesIn :
       PmDecision(u, id, a, n, FALSE)

SpecFlow == Init /\ [][NextFlow]_vars

\* ============================================================== properties
\* A call answers in this step (last' is its response).
Answered == InFlight' = InFlight - 1

RoleOf(u) == Users[u].role

Edges ==
  {<<PENDING_HR_REVIEW, FORWARDED_TO_TEAM_LEAD>>,
   <<FORWARDED_TO_TEAM_LEAD, APPROVED>>,
   <<FORWARDED_TO_TEAM_LEAD, PENDING_L7_DECISION>>,
   <<PENDING_L7_DECISION, APPROVED>>,
   <<PENDING_L7_DECISION, REJECTED>>,
   <<PENDING_HR_REVIEW, CANCELLED>>,
   <<FORWARDED_TO_TEAM_LEAD, CANCELLED>>}

Terminal == {APPROVED, REJECTED, CANCELLED}

\* The call answered in this step is a decision endpoint called by an actor
\* with the role the endpoint asks for and an action the endpoint knows.
HrCall == last'.op = "hr_approve" /\ RoleOf(last'.actor) \in {HR, ADMIN}
TlCall ==
  /\ last'.op = "tl_decision"
  /\ RoleOf(last'.actor) \in {TECHNICAL_LEAD, ADMIN}
  /\ last'.action \in {"approve", "forward_to_pm"}
PmCall ==
  /\ last'.op = "pm_decision"
  /\ RoleOf(last'.actor) \in {PROJECT_MANAGER, ADMIN}
  /\ last'.action \in {"approve", "reject"}

\* C1: every change of a leave request's status, by any endpoint and any
\* actor, follows an edge of the status graph.
C1_StatusFollowsGraph ==
  [][\A id \in DOMAIN leaves :
       leaves'[id].status # leaves[id].status
         => <<leaves[id].status, leaves'[id].status>> \in Edges]_vars

\* C2: once a request is approved, rejected or cancelled, no call of
\* hr-approve, tl-decision, pm-decision or cancel changes its status.
C2_TerminalIsFinal ==
  [][\A id \in DOMAIN leaves :
       (/\ Answered
        /\ last'.op \in {"hr_approve", "tl_decision", "pm_decision", "cancel"}
        /\ leaves[id].status \in Terminal)
         => leaves'[id].status = leaves[id].status]_vars

\* C3: of two conflicting tl-decision (or pm-decision) calls on the same
\* request that are in flight together, the two never both report success.
C3_OneWinner ==
  [][(/\ Answered
      /\ last'.waited
      /\ last.op \in {"tl_decision", "pm_decision"}
      /\ last'.op = last.op
      /\ last'.leave_id = last.leave_id
      /\ last.leave_id \in DOMAIN leaves
      /\ last'.action # last.action)
       => ~(last.code = OK /\ last'.code = OK)]_vars

\* C4: a call on a request in pending_hr_review changes it only when it is
\* hr-approve by HR/admin (to forwarded_to_team_lead) or cancel by the owner
\* or admin (to cancelled); any other call fails with Forbidden or
\* InvalidState (InvalidArgument for an unknown action), and the request
\* never goes from pending_hr_review straight to approved.
C4_FromPendingHr ==
  [][\A id \in DOMAIN leaves :
       (/\ Answered
        /\ last'.leave_id = id
        /\ leaves[id].status = PENDING_HR_REVIEW)
         => LET a == last'.actor
                legalHr == HrCall
                legalCancel == /\ last'.op = "cancel"
                               /\ (a = leaves[id].employee_id \/ RoleOf(a) = ADMIN)
            IN /\ leaves'[id] # leaves[id]
                    => \/ legalHr /\ leaves'[id].status = FORWARDED_TO_TEAM_LEAD
                       \/ legalCancel /\ leaves'[id].status = CANCELLED
               /\ ~(legalHr \/ legalCancel)
                    => last'.code \in {Forbidden, InvalidState, InvalidArgument}
               /\ leaves'[id].status # APPROVED]_vars

\* C5: hr-approve, tl-decision and pm-decision by an authorised actor on an
\* existing request whose status is not the operation's pre-state fail with
\* InvalidState and leave the leave table as it was.
C5_PreStateChecked ==
  [][\A id \in DOMAIN leaves :
       (/\ Answered
        /\ last'.leave_id = id
        /\ \/ HrCall /\ leaves[id].status # PENDING_HR_REVIEW
           \/ TlCall /\ leaves[id].status # FORWARDED_TO_TEAM_LEAD
           \/ PmCall /\ leaves[id].status # PENDING_L7_DECISION)
         => last'.code = InvalidState /\ leaves' = leaves]_vars

\* C6: hr-approve, tl-decision and pm-decision by an authorised actor with
\* an id that matches no leave request fail with NotFound and neither
\* create nor change a row.
C6_UnknownIdNotFound ==
  [][(/\ Answered
      /\ last'.leave_id \notin DOMAIN leaves
      /\ (HrCall \/ TlCall \/ PmCall))
       => last'.code = NotFound /\ leaves' = leaves]_vars

\* C7: hr-approve by an actor who is neither HR nor admin, tl-decision by
\* one who is neither Technical Lead nor admin, pm-decision by one who is
\* neither Project Manager nor admin, and cancel of an existing request by
\* one who is neither its employee nor admin fail with Forbidden, and the
\* leave table is the same after the call, whatever the request's status.
C7_ActorChecks ==
  [][Answered =>
         LET a == last'.actor
             id == last'.leave_id
             denied ==
               \/ last'.op = "hr_approve" /\ RoleOf(a) \notin {HR, ADMIN}
               \/ last'.op = "tl_decision" /\ RoleOf(a) \notin {TECHNICAL_LEAD, ADMIN}
               \/ last'.op = "pm_decision" /\ RoleOf(a) \notin {PROJECT_MANAGER, ADMIN}
               \/ /\ last'.op = "cancel"
                  /\ id \in DOMAIN leaves
                  /\ a # leaves[id].employee_id
                  /\ RoleOf(a) # ADMIN
         IN denied => last'.code = Forbidden /\ leaves' = leaves]_vars

\* C7 witness: a cancel by HR (not the owner, not admin) of an approved
\* request was answered Forbidden.
C7_Witness ==
  /\ last.op = "cancel"
  /\ last.actor = "u_hr"
  /\ last.code = Forbidden
  /\ last.leave_id \in DOMAIN leaves
  /\ leaves[last.leave_id].status = APPROVED

\* C8: tl-decision with an action other than approve / forward_to_pm, and
\* pm-decision with an action other than approve / reject, never change the
\* leave table; called by an actor who passes the endpoint's actor check
\* they fail with InvalidArgument (by any other actor with Forbidden).
C8_BadAction ==
  [][Answered =>
         LET a == last'.actor
             badTl == /\ last'.op = "tl_decision"
                      /\ last'.action \notin {"approve", "forward_to_pm"}
             badPm == /\ last'.op = "pm_decision"
                      /\ last'.action \notin {"approve", "reject"}
             authorised ==
               \/ badTl /\ RoleOf(a) \in {TECHNICAL_LEAD, ADMIN}
               \/ badPm /\ RoleOf(a) \in {PROJECT_MANAGER, ADMIN}
         IN (badTl \/ badPm)
              => /\ leaves' = leaves
                 /\ last'.code = IF authorised THEN InvalidArgument ELSE Forbidden]_vars

\* C8 witness: the Project Manager's pm-decision with an unknown action on
\* a request waiting for the PM was answered InvalidArgument.
C8_Witness ==
  /\ last.op = "pm_decision"
  /\ last.actor = "u_pm"
  /\ last.action = "escalate"
  /\ last.code = InvalidArgument
  /\ last.leave_id \in DOMAIN leaves
  /\ leaves[last.leave_id].status = PENDING_L7_DECISION

\* C9: cancel by the request's own employee or an admin on a request in
\* pending_l7_decision, approved, rejected or cancelled fails with
\* InvalidState and leaves the status as it was.
C9_CancelOnlyEarly ==
  [][\A id \in DOMAIN leaves :
       (/\ Answered
        /\ last'.op = "cancel"
        /\ last'.leave_id = id
        /\ (last'.actor = leaves[id].employee_id \/ RoleOf(last'.actor) = ADMIN)
        /\ leaves[id].status \in {PENDING_L7_DECISION, APPROVED, REJECTED, CANCELLED})
         => last'.code = InvalidState /\ leaves'[id].status = leaves[id].status]_vars

\* The employee holds an unresolved high/critical incident / a non-completed
\* critical task, read off the tables row by row.
HoldsBlockingIncident(e) ==
  \E k \in 1..Len(incidents) :
    /\ incidents[k].assigned_to_id = e
    /\ incidents[k].severity \in {"high", "critical"}
    /\ incidents[k].status # "resolved"

HoldsCriticalTask(e) ==
  \E k \in 1..Len(tasks) :
    /\ tasks[k].assignee_id = e
    /\ tasks[k].priority = "critical"
    /\ tasks[k].status # "completed"

\* C10: when both sub-queries answer, the risk level is high if the
\* employee holds an unresolved high/critical incident, else medium if the
\* employee holds a non-completed critical task or days > 3, else low.
C10_RiskTable ==
  (risk.employee_id # None /\ ~risk.tasks_fail /\ ~risk.incidents_fail)
    => risk.risk_level =
         IF HoldsBlockingIncident(risk.employee_id) THEN "high"
         ELSE IF HoldsCriticalTask(risk.employee_id) \/ risk.leave_days > 3
           THEN "medium"
         ELSE "low"

\* C10 witness: a 3-day leave of an employee with tasks but no critical task
\* and no blocking incident was classified low.
C10_Witness ==
  /\ risk.employee_id = "u_emp"
  /\ risk.leave_days = 3
  /\ ~risk.tasks_fail /\ ~risk.incidents_fail
  /\ Len(tasks) > 0 /\ tasks[1].assignee_id = "u_emp"
  /\ ~HoldsCriticalTask("u_emp")
  /\ ~HoldsBlockingIncident("u_emp")
  /\ risk.risk_level = "low"

\* C11: the risk analysis reports tl_can_approve exactly for a low risk and
\* requires_pm_approval exactly for a medium or high risk, so exactly one of
\* the two; a row of the pending list has can_tl_approve only when the risk
\* is low and the viewer is a Technical Lead; a 2-day leave with no tasks
\* and no incidents is TL-approvable, a 5-day leave with no critical task
\* and no incidents requires the PM.
C11_Recommendation ==
  /\ risk.op = "risk_analysis" =>
       /\ risk.tl_can_approve <=> risk.risk_level = "low"
       /\ risk.requires_pm_approval <=> risk.risk_level \in {"medium", "high"}
       /\ risk.tl_can_approve # risk.requires_pm_approval
       /\ (risk.leave_days = 2 /\ tasks = <<>> /\ incidents = <<>>)
            => risk.tl_can_approve
       /\ (/\ risk.leave_days = 5
           /\ ~HoldsCriticalTask(risk.employee_id)
           /\ incidents = <<>>)
            => risk.requires_pm_approval /\ risk.risk_level = "medium"
  /\ (risk.op = "pending" /\ risk.can_tl_approve) =>
       risk.risk_level = "low" /\ RoleOf(risk.viewer) = TECHNICAL_LEAD

\* C11 witness: the risk analysis of a 5-day leave of an employee with a
\* task that is not critical, and no incident, asked for the PM.
C11_Witness ==
  /\ risk.op = "risk_analysis"
  /\ risk.leave_days = 5
  /\ Len(tasks) > 0 /\ tasks[1].assignee_id = risk.employee_id
  /\ ~HoldsCriticalTask(risk.employee_id)
  /\ incidents = <<>>
  /\ risk.requires_pm_approval /\ ~risk.tl_can_approve

\* The risk level of the request, as the risk analysis would report it.
RiskOfLeave(id) ==
  calculate_risk_level(leaves[id].days, leaves[id].employee_id, tasks,
                       incidents, FALSE, FALSE).risk_level

\* C12: tl-decision approve by a Technical Lead or admin on a request in
\* forwarded_to_team_lead succeeds and moves it to approved, whatever the
\* risk level of the request is.
C12_NoRiskGate ==
  [][\A id \in DOMAIN leaves :
       (/\ Answered
        /\ last'.op = "tl_decision"
        /\ last'.action = "approve"
        /\ last'.leave_id = id
        /\ RoleOf(last'.actor) \in {TECHNICAL_LEAD, ADMIN}
        /\ leaves[id].status = FORWARDED_TO_TEAM_LEAD
        /\ RiskOfLeave(id) \in {"low", "medium", "high"})
         => last'.code = OK /\ leaves'[id].status = APPROVED]_vars

\* C12 witness: the Technical Lead approved a request whose risk is high.
C12_Witness ==
  /\ last.op = "tl_decision"
  /\ last.actor = "u_tl"
  /\ last.action = "approve"
  /\ last.code = OK
  /\ 1 \in DOMAIN leaves
  /\ leaves[1].status = APPROVED
  /\ RiskOfLeave(1) = "high"

\* Active tasks of employee e with priority p among the first n task rows.
ActiveWithPriority(e, p, n) ==
  Cardinality({k \in 1..n : /\ tasks[k].assignee_id = e
                            /\ tasks[k].status # "completed"
                            /\ tasks[k].priority = p})

WeightedLoad(e, n) ==
  40 * ActiveWithPriority(e, "critical", n) + 30 * ActiveWithPriority(e, "high", n)
  + 20 * ActiveWithPriority(e, "medium", n) + 10 * ActiveWithPriority(e, "low", n)

\* C13 (value): the workload is the sum of the weights 40/30/20/10 of the
\* employee's non-completed tasks, capped at 100; it lies in 0..100 and is 0
\* when the employee has no active task.
C13_WorkloadValue ==
  workload.employee_id # None =>
    LET load == WeightedLoad(workload.employee_id, workload.ntasks)
    IN /\ workload.score = IF load > 100 THEN 100 ELSE load
       /\ workload.score \in 0..100
       /\ load = 0 => workload.score = 0

\* C13 (monotone): the workload of an employee computed after further tasks
\* were added is never below the one computed before.
C13_WorkloadMonotone ==
  [][(/\ workload.employee_id # None
      /\ workload'.employee_id = workload.employee_id
      /\ workload'.ntasks >= workload.ntasks)
       => workload'.score >= workload.score]_vars

\* C13: both parts.
C13_Workload == []C13_WorkloadValue /\ C13_WorkloadMonotone

\* C13 witness: three active critical tasks of one employee give 100.
C13_Witness ==
  /\ workload.employee_id = "u_emp"
  /\ workload.ntasks = 3
  /\ WeightedLoad("u_emp", 3) = 120
  /\ workload.score = 100

\* The analysis answered for an existing request with every sub-query
\* answering.
Analysed == analysis.code = OK /\ analysis.failed = None

\* The employee is owner or assignee of an unresolved high/critical incident.
BlockedByIncident(e) ==
  \E k \in 1..Len(incidents) :
    /\ (incidents[k].owner_id = e \/ incidents[k].assigned_to_id = e)
    /\ incidents[k].severity \in {"high", "critical"}
    /\ incidents[k].status # "resolved"

\* The row of user e in the users table covers at least 80% of the weight
\* of the required skills (python 3, sql 1).
CoversSkills(e) ==
  \E j \in 1..Len(pool) :
    /\ pool[j].id = e
    /\ LET has(k) == \E i \in 1..Len(pool[j].skills) : pool[j].skills[i] = k
           m == (IF has("python") THEN 3 ELSE 0) + (IF has("sql") THEN 1 ELSE 0)
       IN m * 100 >= 80 * 4

\* C14: a candidate returned by the alternate search is not the excluded
\* employee, matches at least 80% of the skills, has availability (100 minus
\* workload) of at least 30 and has no blocking incident.
C14_AlternateQualifies ==
  (Analysed /\ analysis.valid_alternate.id # None) =>
    LET alt == analysis.valid_alternate IN
    /\ alt.id # analysis.employee_id
    /\ alt.skill_match >= 80 /\ CoversSkills(alt.id)
    /\ alt.availability >= 30
    /\ 100 - WeightedLoad(alt.id, Len(tasks)) >= 30
    /\ ~BlockedByIncident(alt.id)

\* C15: a candidate returned by the alternate search is never a member of
\* the project of the critical task.
C15_SkipsSameProject ==
  (Analysed /\ analysis.valid_alternate.id # None) =>
    \A k \in 1..Len(tasks) :
      (tasks[k].assignee_id = analysis.employee_id /\ tasks[k].priority = "critical")
        => <<tasks[k].project_id, analysis.valid_alternate.id>> \notin project_members

\* The employee has a task in status open or blocked.
HoldsPendingTask(e) ==
  \E k \in 1..Len(tasks) :
    tasks[k].assignee_id = e /\ tasks[k].status \in {"open", "blocked"}

\* C16: final_decision is APPROVED_BY_L7 exactly when none of incident hard
\* block, resource hold and pending tasks is flagged, and PENDING_L6 in every
\* other case; can_l7_approve is true exactly with APPROVED_BY_L7; the
\* resource hold is a non-completed critical task of the employee.
C16_DecisionTable ==
  analysis.code = OK =>
    /\ analysis.final_decision = APPROVED_BY_L7
         <=> /\ ~analysis.incident_hard_block
             /\ ~analysis.resource_hold
             /\ ~analysis.pending_tasks
    /\ analysis.final_decision \in {APPROVED_BY_L7, PENDING_L6}
    /\ analysis.can_l7_approve <=> analysis.final_decision = APPROVED_BY_L7
    /\ analysis.failed = None =>
         /\ analysis.resource_hold <=> HoldsCriticalTask(analysis.employee_id)
         /\ analysis.pending_tasks <=> HoldsPendingTask(analysis.employee_id)

\* C16 witness: a critical task in progress with a valid alternate found,
\* no pending task and no hard block, was answered PENDING_L6.
C16_Witness ==
  /\ Analysed
  /\ analysis.resource_hold
  /\ analysis.valid_alternate.id # None
  /\ ~analysis.pending_tasks
  /\ ~analysis.incident_hard_block
  /\ analysis.final_decision = PENDING_L6
  /\ ~analysis.can_l7_approve

\* Scenario C: the employee has one open critical task and no other task;
\* colleague c is the one other user, active, with the required skills and
\* availability 60; neither has a blocking incident.
ScenarioC(c) ==
  /\ Analysed
  /\ Cardinality({k \in 1..Len(tasks) : tasks[k].assignee_id = analysis.employee_id}) = 1
  /\ \E k \in 1..Len(tasks) :
       /\ tasks[k].assignee_id = analysis.employee_id
       /\ tasks[k].priority = "critical"
       /\ tasks[k].status = "open"
  /\ Len(pool) = 2
  /\ \E j \in 1..Len(pool) :
       /\ pool[j].id = c
       /\ pool[j].status = "active"
       /\ pool[j].skills = <<"python", "sql">>
  /\ c # analysis.employee_id
  /\ 100 - WeightedLoad(c, Len(tasks)) = 60
  /\ ~BlockedByIncident(c)
  /\ ~BlockedByIncident(analysis.employee_id)

\* C17: in scenario C the alternate search returns the colleague and the
\* final decision is APPROVED_BY_L7.
C17_ScenarioC ==
  \A c \in Candidates \cup ConflictEmployees :
    ScenarioC(c) =>
      /\ analysis.valid_alternate.id = c
      /\ analysis.final_decision = APPROVED_BY_L7

\* The employee is the assignee of an unresolved high/critical incident.
HoldsAssignedIncident(e) ==
  \E k \in 1..Len(incidents) :
    /\ incidents[k].assigned_to_id = e
    /\ incidents[k].severity \in {"high", "critical"}
    /\ incidents[k].status # "resolved"

\* The risk level of the analysed request over the same tables.
RiskOfAnalysed ==
  calculate_risk_level(leaves[analysis.leave_id].days, analysis.employee_id,
                       tasks, incidents, FALSE, FALSE).risk_level

\* C18: for an employee with an unresolved high/critical incident assigned,
\* the risk is high and the conflict analysis reports the hard block and
\* PENDING_L6, whatever the tasks; the two never disagree about the block.
C18_ScenarioD ==
  Analysed =>
    /\ HoldsAssignedIncident(analysis.employee_id) =>
         /\ RiskOfAnalysed = "high"
         /\ analysis.incident_hard_block
         /\ analysis.final_decision = PENDING_L6
    /\ analysis.incident_hard_block <=> RiskOfAnalysed = "high"

\* C19: the incident guard reports blocked exactly when the employee is
\* owner or assignee of an incident of severity high or critical whose
\* status is not resolved.
C19_IncidentGuard ==
  Analysed =>
    (analysis.incident_hard_block <=> BlockedByIncident(analysis.employee_id))


\* C21: the steps of the sequential workflow succeed: a created request
\* starts in pending_hr_review; hr-approve by HR moves a request in
\* pending_hr_review to forwarded_to_team_lead; from there tl-decision by the
\* Technical Lead ends in approved (approve) or moves to pending_l7_decision
\* (forward_to_pm); from there pm-decision by the Project Manager ends in
\* approved (approve) or rejected (reject).
C21_SequentialWorkflow ==
  [][Answered =>
       LET id == last'.leave_id
           from(s) == id \in DOMAIN leaves /\ leaves[id].status = s
           to(s) == last'.code = OK /\ leaves'[id].status = s
       IN /\ last'.op = "create" =>
               /\ last'.code = OK
               /\ id \notin DOMAIN leaves
               /\ id \in DOMAIN leaves'
               /\ leaves'[id].status = PENDING_HR_REVIEW
          /\ (last'.op = "hr_approve" /\ RoleOf(last'.actor) = HR
                /\ from(PENDING_HR_REVIEW))
               => to(FORWARDED_TO_TEAM_LEAD)
          /\ (last'.op = "tl_decision" /\ RoleOf(last'.actor) = TECHNICAL_LEAD
                /\ from(FORWARDED_TO_TEAM_LEAD))
               => /\ last'.action = "approve" => to(APPROVED)
                  /\ last'.action = "forward_to_pm" => to(PENDING_L7_DECISION)
          /\ (last'.op = "pm_decision" /\ RoleOf(last'.actor) = PROJECT_MANAGER
                /\ from(PENDING_L7_DECISION))
               => /\ last'.action = "approve" => to(APPROVED)
                  /\ last'.action = "reject" => to(REJECTED)]_vars

\* C21 witness: after four calls, the last one the Project Manager's
\* approve, the request that HR reviewed is approved by the Project Manager.
C21_Witness ==
  /\ ncalls = 4
  /\ last.op = "pm_decision" /\ last.actor = "u_pm" /\ last.action = "approve"
  /\ last.code = OK
  /\ 1 \in DOMAIN leaves
  /\ leaves[1].status = APPROVED
  /\ leaves[1].hr_reviewed_by = "u_hr"
  /\ leaves[1].decided_by_id = "u_pm"


\* The user in row j of the users table is active, is not the analysed
\* employee, covers the skills, has availability of at least 30 and is not
\* blocked by an incident.
Qualifies(j) ==
  /\ pool[j].status = "active"
  /\ pool[j].id # analysis.employee_id
  /\ CoversSkills(pool[j].id)
  /\ 100 - WeightedLoad(pool[j].id, Len(tasks)) >= 30
  /\ ~BlockedByIncident(pool[j].id)

\* C22: when the alternate search runs, it returns the first user, in the
\* order of the users table, who qualifies, and none only when no user of
\* the table qualifies.
C22_FirstQualifying ==
  (Analysed /\ analysis.resource_hold) =>
    IF \E j \in 1..Len(pool) : Qualifies(j)
      THEN LET j == CHOOSE i \in 1..Len(pool) :
                      Qualifies(i) /\ \A h \in 1..(i - 1) : ~Qualifies(h)
           IN analysis.valid_alternate.id = pool[j].id
      ELSE analysis.valid_alternate.id = None


\* Weight of skill k in the requirement mapping of the last skill match, and
\* the part of it the candidate's score earns.
RequiredWeight(k) ==
  IF k \in DOMAIN skill.required_skills THEN skill.required_skills[k] ELSE 0

MatchedWeight(k) ==
  IF /\ k \in DOMAIN skill.employee_skills
     /\ skill.employee_skills[k] >= 60
    THEN RequiredWeight(k) ELSE 0

\* C23: the skill match is 100 * (weight of the required skills whose score
\* is at least 60) / (weight of all required skills), in whole percent; it
\* is 100 when no skill is required and always lies in 0..100; a skill of a
\* flat list scores 80, a skill the candidate lacks scores 0.
C23_SkillMatch ==
  skill.op # None =>
    LET total == RequiredWeight("python") + RequiredWeight("sql") + RequiredWeight("go")
        matched == MatchedWeight("python") + MatchedWeight("sql") + MatchedWeight("go")
    IN /\ skill.skill_match \in 0..100
       /\ DOMAIN skill.required_skills = {} => skill.skill_match = 100
       /\ total > 0 => skill.skill_match = (100 * matched) \div total
       /\ skill.op = "list" =>
            \A k \in SkillNames :
              (\E i \in 1..Len(skill.alt_skills) : skill.alt_skills[i] = k)
                <=> (k \in DOMAIN skill.employee_skills
                       /\ skill.employee_skills[k] = 80)

\* C23 witness: python (weight 2) scored 60 and sql (weight 1) scored 59
\* give a match of 66.
C23_Witness ==
  /\ skill.op = "scores"
  /\ DOMAIN skill.required_skills = {"python", "sql"}
  /\ skill.required_skills["python"] = 2 /\ skill.required_skills["sql"] = 1
  /\ DOMAIN skill.employee_skills = {"python", "sql"}
  /\ skill.employee_skills["python"] = 60 /\ skill.employee_skills["sql"] = 59
  /\ skill.skill_match = 66


\* C24: an advisory computation one of whose sub-queries fails still
\* answers, with the failed factor absent and the classification computed
\* from the remaining factors: the risk level from the incidents, critical
\* tasks and duration that were read, the conflict decision from the flags
\* that were read.
C24_Degrade ==
  /\ risk.op # None =>
       LET e == risk.employee_id
           level == IF ~risk.incidents_fail /\ HoldsBlockingIncident(e) THEN "high"
                    ELSE IF (~risk.tasks_fail /\ HoldsCriticalTask(e))
                            \/ risk.leave_days > 3 THEN "medium"
                    ELSE "low"
       IN risk.risk_level = level
  /\ (analysis.failed # None /\ analysis.leave_id \in DOMAIN leaves) =>
       LET f == analysis.failed
           e == analysis.employee_id
       IN /\ analysis.code = OK
          /\ f = "critical_tasks" =>
               ~analysis.resource_hold /\ analysis.valid_alternate.id = None
          /\ f = "pending_tasks" => ~analysis.pending_tasks
          /\ f = "incidents" => ~analysis.incident_hard_block
          /\ f = "alternate" => analysis.valid_alternate.id = None
          /\ f # "critical_tasks" => (analysis.resource_hold <=> HoldsCriticalTask(e))
          /\ f # "pending_tasks" => (analysis.pending_tasks <=> HoldsPendingTask(e))
          /\ analysis.final_decision =
               IF \/ analysis.incident_hard_block
                  \/ analysis.resource_hold
                  \/ analysis.pending_tasks
                 THEN PENDING_L6 ELSE APPROVED_BY_L7

\* C24 witness: the critical-task query failed for an employee who holds a
\* critical task in progress and nothing else; the analysis answered
\* APPROVED_BY_L7.
C24_Witness ==
  /\ analysis.code = OK
  /\ analysis.failed = "critical_tasks"
  /\ HoldsCriticalTask(analysis.employee_id)
  /\ ~analysis.resource_hold
  /\ analysis.final_decision = APPROVED_BY_L7


\* The factor list of the last risk answer holds a factor of type t.
HasFactor(t) ==
  \E i \in 1..Len(risk.risk_factors) : risk.risk_factors[i].type = t

\* C25: the factor list holds the duration factor exactly when days > 3, the
\* critical-task factor exactly when the critical tasks that were read are
\* more than none, the blocking-incident factor exactly when the incidents
\* that were read are more than none, each once and in that order; the level
\* is low exactly when the list is empty and high exactly when it holds the
\* blocking-incident factor, also when a sub-query failed.
C25_FactorsAgree ==
  risk.op # None =>
    LET e == risk.employee_id
        fs == risk.risk_factors
        long == risk.leave_days > 3
        crit == ~risk.tasks_fail /\ HoldsCriticalTask(e)
        inc == ~risk.incidents_fail /\ HoldsBlockingIncident(e)
    IN /\ HasFactor("extended_absence") <=> long
       /\ HasFactor("critical_tasks") <=> crit
       /\ HasFactor("blocking_incidents") <=> inc
       /\ Len(fs) = (IF long THEN 1 ELSE 0) + (IF crit THEN 1 ELSE 0)
                      + (IF inc THEN 1 ELSE 0)
       /\ \A i, j \in 1..Len(fs) :
            i < j => /\ fs[j].type # "extended_absence"
                     /\ fs[i].type # "blocking_incidents"
       /\ risk.risk_level = "low" <=> fs = <<>>
       /\ risk.risk_level = "high" <=> HasFactor("blocking_incidents")

\* C25 witness: a 5-day leave of an employee with a critical task and a
\* blocking incident has the three factors in order and level high.
C25_Witness ==
  /\ risk.op = "risk_analysis"
  /\ Len(risk.risk_factors) = 3
  /\ risk.risk_factors[1].type = "extended_absence"
  /\ risk.risk_factors[2].type = "critical_tasks"
  /\ risk.risk_factors[3].type = "blocking_incidents"
  /\ risk.risk_level = "high"


\* C26: a step in which the risk analysis, the pending list or the conflict
\* analysis (with its alternate search) answers, with success or with an
\* error, leaves the leave, user, task and incident tables and the users'
\* has_blocking_incident flags as they were.
C26_ReadOnly ==
  [][(risk' # risk \/ analysis' # analysis)
       => /\ leaves' = leaves
          /\ pool' = pool
          /\ tasks' = tasks
          /\ incidents' = incidents
          /\ blocking_flag' = blocking_flag]_vars

\* C26 witness: the conflict analysis found an alternate and escalated; the
\* leave row is the one that was created and no flag is set.
C26_Witness ==
  /\ analysis.code = OK
  /\ analysis.valid_alternate.id = "u_tl"
  /\ analysis.final_decision = PENDING_L6
  /\ leaves = (1 :> new_leave("u_emp", 2))
  /\ blocking_flag = NoFlags


\* The call answered in this step resolved an incident: resolve_incident,
\* or update_incident_status with status resolved, answered with success.
Resolved ==
  /\ last' # last \/ incidents' # incidents \/ blocking_flag' # blocking_flag
  /\ last'.code = OK
  /\ \/ last'.op = "resolve_incident"
     \/ last'.op = "update_incident_status" /\ last'.action = "resolved"

\* User a is still the assignee of a high/critical incident that is not
\* resolved, after the step.
StillBlocked(a) ==
  \E k \in 1..Len(incidents') :
    /\ incidents'[k].assigned_to_id = a
    /\ incidents'[k].severity \in {"high", "critical"}
    /\ incidents'[k].status # "resolved"

\* C27: a resolution sets the assignee's has_blocking_incident flag to false
\* when no other high/critical incident assigned to them is unresolved
\* (in_progress counts as unresolved), and leaves the flag as it was while
\* such an incident remains.
C27_FlagCleared ==
  [][Resolved =>
       LET a == incidents'[last'.leave_id].assigned_to_id
       IN /\ ~StillBlocked(a) => blocking_flag'[a] = FALSE
          /\ StillBlocked(a) => blocking_flag'[a] = blocking_flag[a]]_vars


\* C28: a cancel by the requesting employee never overwrites a status that
\* a decision has set: a cancel of the request's own employee answered while
\* the request is in pending_l7_decision, approved or rejected leaves the
\* status as it is, also when the decision committed between the cancel's
\* check and its write.
C28_CancelRace ==
  [][\A id \in DOMAIN leaves :
       (/\ Answered
        /\ last'.op = "cancel"
        /\ last'.leave_id = id
        /\ last'.actor = leaves[id].employee_id
        /\ RoleOf(last'.actor) = EMPLOYEE
        /\ leaves[id].status \in {PENDING_L7_DECISION, APPROVED, REJECTED})
         => leaves'[id].status = leaves[id].status]_vars


\* C29 (state): an approved request has an approval timestamp and a deciding
\* actor recorded.
C29_ApprovedStamped ==
  \A id \in DOMAIN leaves :
    leaves[id].status = APPROVED
      => leaves[id].approved_at # None /\ leaves[id].decided_by_id # None

\* C29 (step): a step that turns a request approved records the caller as
\* the decider and stamps the approval; pm-decision reject that succeeds
\* records the caller and the notes and leaves the approval timestamp as it
\* was.
C29_DecisionRecorded ==
  [][\A id \in DOMAIN leaves :
       /\ (Answered /\ last'.leave_id = id /\ leaves[id].status # APPROVED
             /\ leaves'[id].status = APPROVED)
            => /\ leaves'[id].decided_by_id = last'.actor
               /\ leaves'[id].approved_at = Now
       /\ (Answered /\ last'.op = "pm_decision" /\ last'.action = "reject"
             /\ last'.leave_id = id /\ last'.code = OK)
            => /\ leaves'[id].status = REJECTED
               /\ leaves'[id].decided_by_id = last'.actor
               /\ leaves'[id].decision_notes \in NotesIn
               /\ leaves'[id].approved_at = leaves[id].approved_at]_vars

\* C29: both parts.
C29_Approval == []C29_ApprovedStamped /\ C29_DecisionRecorded

\* C29 witness: the generic update endpoint set a request to approved; the
\* row carries the timestamp and the caller.
C29_Witness ==
  /\ last.op = "update" /\ last.action = APPROVED /\ last.code = OK
  /\ last.leave_id \in DOMAIN leaves
  /\ leaves[last.leave_id].status = APPROVED
  /\ leaves[last.leave_id].approved_at = Now
  /\ leaves[last.leave_id].decided_by_id = last.actor


\* The statuses a task can have by the task model.
TaskModelStatuses == {"not_started", "in_progress", "blocked", "completed"}

HoldsBlockedTask(e) ==
  \E k \in 1..Len(tasks) : tasks[k].assignee_id = e /\ tasks[k].status = "blocked"

\* C30: when every task has a status of the task model, the pending_tasks
\* flag is true exactly when the employee has a blocked task; an employee
\* with no critical task that is not completed, no blocked task and no
\* blocking incident gets APPROVED_BY_L7.
C30_PendingFlag ==
  (Analysed /\ \A k \in 1..Len(tasks) : tasks[k].status \in TaskModelStatuses) =>
    LET e == analysis.employee_id
    IN /\ analysis.pending_tasks <=> HoldsBlockedTask(e)
       /\ (~HoldsCriticalTask(e) /\ ~HoldsBlockedTask(e) /\ ~BlockedByIncident(e))
            => analysis.final_decision = APPROVED_BY_L7

\* C30 witness: an employee with a task not started and a task in progress,
\* neither critical, and no incident, has no pending-task flag and gets
\* APPROVED_BY_L7.
C30_Witness ==
  /\ Analysed
  /\ Len(tasks) = 2
  /\ \A k \in 1..2 : tasks[k].assignee_id = analysis.employee_id
                      /\ tasks[k].priority = "low"
  /\ tasks[1].status = "not_started" /\ tasks[2].status = "in_progress"
  /\ incidents = <<>>
  /\ ~analysis.pending_tasks
  /\ analysis.final_decision = APPROVED_BY_L7

====
